---------------------------- MODULE Spec2Model ----------------------------
(***************************************************************************)
(* Session log of the HR-Demo-App upload server (package server):          *)
(* NewUploadKeyHandler, UploadHandler, saveUpload, uploadNameFromKey and   *)
(* the follow endpoint.                                                    *)
(*                                                                         *)
(* Text is a sequence of one-character strings.  The state names each      *)
(* query parameter and key by a short handle h, and Text[h] is its         *)
(* characters.  A log file is a sequence of cells: one cell per byte,      *)
(* except that the two fixed-width fields of the metadata object (the key  *)
(* and the name, the same for every writer of one file) take one cell      *)
(* each.                                                                   *)
(***************************************************************************)
EXTENDS Integers, Sequences, FiniteSets, TLC

(***************************************************************************)
(* Bounds of the model.                                                    *)
(***************************************************************************)
MaxIssue == 2
MaxRecords == 2
MaxBody == 2
MaxCursor == 3
MaxFaults == 1
BufSize == 4

(***************************************************************************)
(* Program constants.                                                      *)
(***************************************************************************)
uploadKeyHexLength == 128
uploadNameWordCount == 4

uploadDir == "uploads"

uploadNameWords ==
  << "correct", "battery", "horse", "staple", "amber", "beacon", "celestial",
     "delta", "ember", "fable", "galaxy", "harbor", "ionic", "jungle",
     "keystone", "lantern", "meadow", "nebula", "opal", "prairie", "quartz",
     "ripple", "solstice", "tundra", "uplink", "voyage", "whisper", "xenon",
     "yonder", "zephyr", "aurora", "cascade", "dawn", "evergreen", "frost",
     "glimmer", "horizon", "island", "juniper", "kestrel", "lilac",
     "meridian", "nimbus", "onyx", "pioneer", "quiver", "resonance",
     "saffron", "topaz" >>

(***************************************************************************)
(* Text.                                                                   *)
(***************************************************************************)
NL == "\n"

Digits == <<"0", "1", "2", "3", "4", "5", "6", "7", "8", "9">>

HexDigits ==
  <<"0", "1", "2", "3", "4", "5", "6", "7", "8", "9", "a", "b", "c", "d", "e", "f">>

Range(s) == {s[i] : i \in 1..Len(s)}

Last(s) == s[Len(s)]

IsPrefix(s, t) == Len(s) <= Len(t) /\ SubSeq(t, 1, Len(s)) = s

\* unicode.IsSpace on the characters of the model
IsSpace(c) == c \in {" ", "\t", "\r", NL}

\* strings.TrimSpace
RECURSIVE TrimLeft(_)
TrimLeft(s) ==
  IF s # <<>> /\ IsSpace(Head(s)) THEN TrimLeft(Tail(s)) ELSE s

RECURSIVE TrimRight(_)
TrimRight(s) ==
  IF s # <<>> /\ IsSpace(Last(s)) THEN TrimRight(SubSeq(s, 1, Len(s) - 1)) ELSE s

TrimSpace(s) == TrimRight(TrimLeft(s))

\* strings.ToLower on the characters of the model
LowerChar(c) ==
  CASE c = "A" -> "a" [] c = "B" -> "b" [] c = "C" -> "c"
    [] c = "D" -> "d" [] c = "E" -> "e" [] c = "F" -> "f"
    [] c = "G" -> "g" [] OTHER -> c

ToLower(s) == [i \in 1..Len(s) |-> LowerChar(s[i])]

\* strconv.Itoa for n >= 0
RECURSIVE Itoa(_)
Itoa(n) ==
  IF n < 10 THEN <<Digits[n + 1]>> ELSE Itoa(n \div 10) \o <<Digits[(n % 10) + 1]>>

IsHex(c) == c \in Range(HexDigits)

HexVal(c) == (CHOOSE i \in 1..16 : HexDigits[i] = c) - 1

\* hex.DecodeString: err # nil on an odd length or a character that is no hex digit
HexDecodeOK(s) == Len(s) % 2 = 0 /\ \A i \in 1..Len(s) : IsHex(s[i])

HexDecode(s) ==
  [i \in 1..(Len(s) \div 2) |-> 16 * HexVal(s[2 * i - 1]) + HexVal(s[2 * i])]

\* strings.Join
RECURSIVE Join(_, _)
Join(words, sep) ==
  IF words = <<>> THEN ""
  ELSE IF Len(words) = 1 THEN words[1]
  ELSE words[1] \o sep \o Join(Tail(words), sep)

\* the two bytes of a word taken low byte first
NameFromTextLowByteFirst(uploadKey) ==
  LET normalized == ToLower(TrimSpace(uploadKey)) IN
  IF Len(uploadNameWords) = 0 THEN "upload"
  ELSE IF ~HexDecodeOK(normalized) \/ Len(normalized) \div 2 < uploadNameWordCount * 2
       THEN "upload"
  ELSE LET keyBytes == HexDecode(normalized)
           words == [i \in 1..uploadNameWordCount |->
                       LET offset == (i - 1) * 2
                           value  == keyBytes[offset + 2] * 256 + keyBytes[offset + 1]
                           index  == value % Len(uploadNameWords)
                       IN  uploadNameWords[index + 1]]
       IN  Join(words, " ")

\* uploadNameFromKey on the characters of the key
NameFromText(uploadKey) ==
  LET normalized == ToLower(TrimSpace(uploadKey)) IN
  IF Len(uploadNameWords) = 0 THEN "upload"
  ELSE IF ~HexDecodeOK(normalized) \/ Len(normalized) \div 2 < uploadNameWordCount * 2
       THEN "upload"
  ELSE LET keyBytes == HexDecode(normalized)
           words == [i \in 1..uploadNameWordCount |->
                       LET offset == (i - 1) * 2
                           value  == keyBytes[offset + 1] * 256 + keyBytes[offset + 2]
                           index  == value % Len(uploadNameWords)
                       IN  uploadNameWords[index + 1]]
       IN  Join(words, " ")

(***************************************************************************)
(* Keys.  generateUploadKey draws 64 random bytes and renders them as 128  *)
(* lowercase hex digits; the model draws from KeyPool.                     *)
(***************************************************************************)
MkKey(prefix) == prefix \o [i \in 1..(uploadKeyHexLength - Len(prefix)) |-> "0"]

Text ==
  ( "missing" :> <<>> )
  @@ ( "short" :> <<"0", "0", "3", "1">> )
  @@ ( "nothex" :> MkKey(<<"0", "0", "3", "g">>) )
  @@ ( "never" :> MkKey(<<"f", "f", "f", "f">>) )
  @@ ( "key1" :> MkKey(<<"0","0","3","1", "0","0","0","1", "0","0","0","2", "0","0","a","b">>) )
  @@ ( "key2" :> MkKey(<<"0","0","0","0", "0","0","0","1", "0","0","0","2", "0","0","a","b">>) )
  @@ ( "key1 padded" :>
         <<" ">> \o MkKey(<<"0","0","3","1", "0","0","0","1", "0","0","0","2", "0","0","A","B">>)
           \o <<" ">> )

Handles == DOMAIN Text

\* the handle of a text
Intern(text) == CHOOSE h \in Handles : Text[h] = text

\* the keys generateUploadKey returns; key1 and key2 have the same name
KeyPool == {"key1", "key2"}

\* the upload_key query parameters a client sends
RawKeys == Handles
LeanRawKeys == {"never", "key1", "key2"}

\* the name of every key and query parameter of the model
NameOf == [h \in Handles |-> NameFromText(Text[h])]

uploadNameFromKey(uploadKey) == NameOf[uploadKey]

Tasks == {"t1", "t2"}

\* lines of a request body, as bufio.Scanner hands them over
RawLines == { <<"7">>, <<" ", "{", "}">>, <<" ">>, <<"x">> }

RECURSIVE SeqsUpTo(_, _)
SeqsUpTo(S, n) ==
  IF n = 0 THEN {<<>>}
  ELSE LET shorter == SeqsUpTo(S, n - 1)
       IN  shorter \cup {Append(q, x) : q \in {r \in shorter : Len(r) = n - 1}, x \in S}

(***************************************************************************)
(* What the clients send and the clock shows: all of it for requests       *)
(* served one after the other, a part of it for requests served at once.   *)
(* Instants are tenths of a second.                                        *)
(***************************************************************************)
Rich ==
  [ keyPool    |-> KeyPool,
    maxIssue   |-> 1,
    rawKeys    |-> RawKeys,
    cursors    |-> 0..MaxCursor,
    bodies     |-> SeqsUpTo(RawLines, MaxBody),
    bodyErrs   |-> BOOLEAN,
    userAgents |-> {<<"u">>, <<"v", "v">>},
    times      |-> {10, 15},
    track      |-> FALSE,
    maxRecords |-> MaxRecords,
    chain      |-> FALSE ]

Lean ==
  [ keyPool    |-> KeyPool,
    maxIssue   |-> MaxIssue,
    rawKeys    |-> LeanRawKeys,
    cursors    |-> 0..1,
    bodies     |-> SeqsUpTo({<<"7">>, <<" ", "{", "}">>}, MaxBody),
    bodyErrs   |-> {FALSE},
    userAgents |-> {<<"u">>, <<"v", "v">>},
    times      |-> {10},
    track      |-> FALSE,
    maxRecords |-> MaxRecords,
    chain      |-> FALSE ]

\* requests served at once: every body holds a record, and the clients of one
\* key send requests
Conc == [Lean EXCEPT !.bodies = {<<<<"7">>>>, <<<<" ", "{", "}">>>>},
                     !.rawKeys = {"key1"}]

\* requests served at once with a write that fails: one user agent, and the new
\* cursor of every follow kept
Race == [Conc EXCEPT !.keyPool = {"key1"}, !.maxIssue = 1, !.cursors = {0},
                     !.userAgents = {<<"u">>}, !.track = TRUE]

\* requests served at once under a fair schedule: a body may hold a line that
\* is not JSON, so that an upload can always read one
Live == [Race EXCEPT !.bodies = {<<<<"x">>>>, <<<<"7">>>>}, !.track = FALSE]

\* the lines of a body that are a number and an object in turn
Alternating == [i \in 1..MaxBody |-> IF i % 2 = 1 THEN <<"7">> ELSE <<" ", "{", "}">>]

\* one key only, and the bodies that are a start of Alternating
Lean1 == [Lean EXCEPT !.keyPool = {"key1"}, !.maxIssue = 1, !.rawKeys = {"key1"},
                      !.cursors = {0}, !.userAgents = {<<"u">>},
                      !.bodies = {<<<<" ", "{", "}">>>>} \cup
                                 {SubSeq(Alternating, 1, n) : n \in 0..MaxBody}]

\* one key only, and room for every body to be stored twice over
Twice == [Lean EXCEPT !.keyPool = {"key1"}, !.maxIssue = 1, !.rawKeys = {"key1"},
                      !.cursors = {0}, !.userAgents = {<<"u">>},
                      !.maxRecords = 2 * MaxBody]

\* one key and its one follower, which gives each follow the new cursor of the
\* follow before
Chain == [Twice EXCEPT !.track = TRUE, !.chain = TRUE]

\* the clients of two keys that have the same name, one record to a body
Pair == [Lean EXCEPT !.cursors = {0}, !.userAgents = {<<"u">>},
                     !.rawKeys = KeyPool, !.bodies = {<<<<"7">>>>}]

\* json.Unmarshal into a json.RawMessage succeeds: on the texts of the model, a
\* decimal number, an empty object or an empty array
JSONValid(text) ==
  \/ text \in {<<"{", "}">>, <<"[", "]">>}
  \/ /\ text # <<>>
     /\ \A i \in 1..Len(text) : text[i] \in Range(Digits)
     /\ (Len(text) > 1 => text[1] # "0")

\* time.Time.Format(time.RFC3339Nano): the fraction is left out when it is zero
FormatTime(at) ==
  Itoa(at \div 10) \o (IF at % 10 = 0 THEN <<>> ELSE <<".">> \o Itoa(at % 10)) \o <<"Z">>

\* json.Marshal of the metadata map: the keys in sorted order, received_at,
\* upload_key, upload_name, user_agent
MetadataJSON(uploadKey, uploadName, userAgent, receivedAt) ==
  <<"{">> \o FormatTime(receivedAt) \o <<",", uploadKey, ",", uploadName, ",">>
    \o userAgent \o <<"}">>

\* a path made of the name of the key only
FilePathByName(uploadName, uploadKey) == uploadDir \o "/" \o uploadName \o ".csv"

\* filepath.Join(uploadDir, fmt.Sprintf("%s_%s.csv", uploadName, uploadKey))
FilePath(uploadName, uploadKey) ==
  uploadDir \o "/" \o uploadName \o "_" \o uploadKey \o ".csv"

Paths == {FilePath(uploadNameFromKey(k), k) : k \in KeyPool}

(***************************************************************************)
(* bufio.Scanner with bufio.ScanLines over a file: the text between line   *)
(* feeds, a trailing carriage return dropped, and a last line without a    *)
(* line feed returned when it is not empty.                                *)
(***************************************************************************)
DropCR(line) ==
  IF line # <<>> /\ Last(line) = "\r" THEN SubSeq(line, 1, Len(line) - 1) ELSE line

RECURSIVE ScanFrom(_, _, _)
ScanFrom(data, cur, acc) ==
  IF data = <<>> THEN (IF cur = <<>> THEN acc ELSE Append(acc, DropCR(cur)))
  ELSE IF Head(data) = NL THEN ScanFrom(Tail(data), <<>>, Append(acc, DropCR(cur)))
  ELSE ScanFrom(Tail(data), Append(cur, Head(data)), acc)

ScanLines(data) == ScanFrom(data, <<>>, <<>>)

NonBlank(lines) == SelectSeq(lines, LAMBDA l : TrimSpace(l) # <<>>)

\* saveUpload's count of the records a file holds: the first line is skipped
\* whatever it is, blank lines are passed over
\* a count that takes in the metadata line
ExistingRecordsAllLines(data) == Len(NonBlank(ScanLines(data)))

ExistingRecords(data) ==
  LET scanned == ScanLines(data)
  IN  IF scanned = <<>> THEN 0 ELSE Len(NonBlank(Tail(scanned)))

(***************************************************************************)
(* bufio.Writer of size BufSize over the file: the write calls of          *)
(* saveUpload, in order, and the chunks they hand to the file.             *)
(***************************************************************************)
WrBytes(p) == [op |-> "Write", data |-> p]
WrByte(c) == [op |-> "WriteByte", data |-> <<c>>]

RECURSIVE RecordCalls(_, _)
RecordCalls(index, lines) ==
  IF lines = <<>> THEN <<>>
  ELSE <<WrBytes(Itoa(index)), WrByte(","), WrBytes(Head(lines)), WrByte(NL)>>
         \o RecordCalls(index + 1, Tail(lines))

\* a first index that repeats the count of the lines in the file
StartIndexAtCount(existingRecords) == existingRecords

StartIndex(existingRecords) == existingRecords + 1

\* write calls that leave a file that holds records as it is
WriteCallsNewFileOnly(isNew, needsTrailingNewline, metadataJSON, existingRecords, lines) ==
  IF isNew
  THEN <<WrBytes(metadataJSON), WrByte(NL)>> \o RecordCalls(StartIndex(existingRecords), lines)
  ELSE <<>>

WriteCalls(isNew, needsTrailingNewline, metadataJSON, existingRecords, lines) ==
  (IF isNew THEN <<WrBytes(metadataJSON), WrByte(NL)>>
   ELSE IF needsTrailingNewline THEN <<WrByte(NL)>>
   ELSE <<>>)
    \o RecordCalls(StartIndex(existingRecords), lines)

RECURSIVE BufioChunks(_, _, _)
BufioChunks(calls, buf, out) ==
  IF calls = <<>> THEN (IF buf = <<>> THEN out ELSE Append(out, buf))
  ELSE LET c == Head(calls)
           p == c.data
           avail == BufSize - Len(buf)
       IN  IF c.op = "WriteByte"
           THEN IF avail <= 0
                THEN BufioChunks(Tail(calls), p, Append(out, buf))
                ELSE BufioChunks(Tail(calls), buf \o p, out)
           ELSE IF Len(p) <= avail
                THEN BufioChunks(Tail(calls), buf \o p, out)
                ELSE IF buf = <<>>
                     THEN BufioChunks(Tail(calls), <<>>, Append(out, p))
                     ELSE BufioChunks(<<WrBytes(SubSeq(p, avail + 1, Len(p)))>> \o Tail(calls),
                                      <<>>, Append(out, buf \o SubSeq(p, 1, avail)))

RECURSIVE Flatten(_)
Flatten(chunks) == IF chunks = <<>> THEN <<>> ELSE Head(chunks) \o Flatten(Tail(chunks))

\* a write of data at offset pos of a file opened without O_APPEND
WriteAt(content, pos, data) ==
  SubSeq(content, 1, pos) \o data \o SubSeq(content, pos + Len(data) + 1, Len(content))

(***************************************************************************)
(* UploadHandler's loop over the body: lines are trimmed, blank lines are  *)
(* passed over, and the first line that is not JSON ends the request.      *)
(***************************************************************************)
RECURSIVE ParseBody(_, _, _)
\* a loop that passes over a line that is not JSON
ParseBodySkipping(body, lines, records) ==
  LET kept == SelectSeq([i \in 1..Len(body) |-> TrimSpace(body[i])], JSONValid)
  IN  [ok |-> TRUE, lines |-> lines \o kept, records |-> records + Len(kept),
       lineNumber |-> 0]

ParseBody(body, lines, records) ==
  IF body = <<>> THEN [ok |-> TRUE, lines |-> lines, records |-> records, lineNumber |-> 0]
  ELSE LET line == TrimSpace(Head(body)) IN
       IF line = <<>> THEN ParseBody(Tail(body), lines, records)
       ELSE IF ~JSONValid(line)
            THEN [ok |-> FALSE, lines |-> lines, records |-> records,
                  lineNumber |-> records + 1]
            ELSE ParseBody(Tail(body), Append(lines, line), records + 1)

(***************************************************************************)
(* State.                                                                  *)
(***************************************************************************)
VARIABLES
  uploadKeys,        \* the registry: the keys issued, in order
  uploadKeysMutex,   \* the task that holds the registry lock, or "free"
  dirExists,         \* whether the upload directory exists
  dir,               \* path -> the file it names (an index of inodes), 0: none
  inodes,            \* the contents of every file ever created
  pc,                \* task -> its place in its handler
  req,               \* task -> the request it serves
  loc,               \* task -> the locals of its handler and of saveUpload
  resp,              \* task -> the response it has written
  acked,             \* path -> the records of the uploads answered 200, in order
  faulted,           \* the paths a failed write has touched
  faults,            \* the failed writes so far
  lastFollow,        \* the last follow answered, while follows are served one
                     \* after the other and the store does not change
  lastCursor,        \* key -> the new cursor the last follow under it was given,
                     \* in the specifications that keep track of it
  received           \* key -> the lines the follower of the key has been given so
                     \* far, in the specifications with such a follower

vars == <<uploadKeys, uploadKeysMutex, dirExists, dir, inodes, pc, req, loc, resp,
          acked, faulted, faults, lastFollow, lastCursor, received>>

store == <<dirExists, dir, inodes>>
ghost == <<acked, faulted, faults, lastCursor, received>>

NoFile == <<"no file">>

\* the contents of the file at path p, or NoFile
File(p) == IF dir[p] = 0 THEN NoFile ELSE inodes[dir[p]]

NoReq == [kind |-> "none", rawKey |-> "", position |-> 0, body |-> <<>>, bodyErr |-> FALSE]

NoLoc ==
  [uploadKey |-> "", uploadName |-> "", userAgent |-> <<>>, receivedAt |-> 0,
   lines |-> <<>>, records |-> 0, filePath |-> "", ino |-> 0, isNew |-> FALSE,
   cleanupOnErr |-> FALSE, size |-> 0, existingRecords |-> 0,
   needsTrailingNewline |-> FALSE, pos |-> 0, chunks |-> <<>>,
   wrote |-> FALSE, created |-> FALSE]

NoResp ==
  [status |-> 0, msg |-> "", records |-> 0, file_path |-> "", name |-> "",
   upload_key |-> "", position |-> 0, lines |-> <<>>, line |-> 0]

NoFollow == [uploadKey |-> "", position |-> 0, resp |-> NoResp, again |-> FALSE]

Reply(status, msg) == [NoResp EXCEPT !.status = status, !.msg = msg]

Init ==
  /\ uploadKeys = <<>>
  /\ uploadKeysMutex = "free"
  /\ dirExists = FALSE
  /\ dir = [p \in Paths |-> 0]
  /\ inodes = <<>>
  /\ pc = [t \in Tasks |-> "idle"]
  /\ req = [t \in Tasks |-> NoReq]
  /\ loc = [t \in Tasks |-> NoLoc]
  /\ resp = [t \in Tasks |-> NoResp]
  /\ acked = [p \in Paths |-> <<>>]
  /\ faulted = {}
  /\ faults = 0
  /\ lastFollow = NoFollow
  /\ lastCursor = [k \in KeyPool |-> 0]
  /\ received = [k \in KeyPool |-> <<>>]

\* t ends its request with response r
Finish(t, r) ==
  /\ pc' = [pc EXCEPT ![t] = "done"]
  /\ resp' = [resp EXCEPT ![t] = r]

Goto(t, label) ==
  /\ pc' = [pc EXCEPT ![t] = label]
  /\ resp' = resp

Begin(t, kind, rawKey, position) ==
  /\ pc[t] = "idle"
  /\ lastFollow' = IF kind = "follow" THEN lastFollow ELSE NoFollow
  /\ req' = [req EXCEPT ![t] = [NoReq EXCEPT !.kind = kind, !.rawKey = rawKey,
                                             !.position = position]]

(***************************************************************************)
(* The registry lock.                                                      *)
(***************************************************************************)
Lock(t) ==
  /\ uploadKeysMutex = "free"
  /\ uploadKeysMutex' = t

\* a lock that is never given back
UnlockNever(t) ==
  /\ uploadKeysMutex = t
  /\ uploadKeysMutex' = uploadKeysMutex

Unlock(t) ==
  /\ uploadKeysMutex = t
  /\ uploadKeysMutex' = "free"

(***************************************************************************)
(* NewUploadKeyHandler.                                                    *)
(***************************************************************************)
\* the requests for a key being served
Issuing == {u \in Tasks : pc[u] \in {"issue_lock", "issue_append"}}

IssueStart(t, in) ==
  /\ Len(uploadKeys) + Cardinality(Issuing) < in.maxIssue
  /\ Begin(t, "issue", "", 0)
  /\ \/ \* generateUploadKey: rand.Read fails
        /\ Finish(t, Reply(500, "failed to generate upload key"))
        /\ loc' = loc
     \/ \E k \in in.keyPool :
          /\ loc' = [loc EXCEPT ![t].uploadKey = k]
          /\ Goto(t, "issue_lock")
  /\ UNCHANGED <<uploadKeys, uploadKeysMutex, store, ghost>>

IssueLock(t) ==
  /\ pc[t] = "issue_lock"
  /\ Lock(t)
  /\ Goto(t, "issue_append")
  /\ UNCHANGED <<uploadKeys, store, req, loc, ghost, lastFollow>>

\* a registry that keeps the last key only
RegistryReplace(keys, uploadKey) == <<uploadKey>>

RegistryAdd(keys, uploadKey) == Append(keys, uploadKey)

IssueAppend(t) ==
  /\ pc[t] = "issue_append"
  /\ uploadKeys' = RegistryAdd(uploadKeys, loc[t].uploadKey)
  /\ Unlock(t)
  /\ LET uploadName == uploadNameFromKey(loc[t].uploadKey) IN
     /\ loc' = [loc EXCEPT ![t].uploadName = uploadName]
     /\ Finish(t, [Reply(200, "ok") EXCEPT !.name = uploadName,
                                           !.upload_key = loc[t].uploadKey])
  /\ UNCHANGED <<store, req, ghost, lastFollow>>

(***************************************************************************)
(* The key checks of UploadHandler, which the follow endpoint shares.      *)
(***************************************************************************)
NormalizeKey(rawKey) == Intern(ToLower(TrimSpace(Text[rawKey])))

\* the checks before the registry is asked: "" when the key passes them
\* a check against the length of the decoded key
KeyShapeErrorDecodedLength(uploadKey) ==
  IF Text[uploadKey] = <<>> THEN "missing upload_key query parameter"
  ELSE IF Len(Text[uploadKey]) # uploadKeyHexLength \div 2 THEN "invalid upload_key length"
  ELSE IF ~HexDecodeOK(Text[uploadKey]) THEN "invalid upload_key format: must be hexadecimal"
  ELSE ""

KeyShapeError(uploadKey) ==
  IF Text[uploadKey] = <<>> THEN "missing upload_key query parameter"
  ELSE IF Len(Text[uploadKey]) # uploadKeyHexLength THEN "invalid upload_key length"
  ELSE IF ~HexDecodeOK(Text[uploadKey]) THEN "invalid upload_key format: must be hexadecimal"
  ELSE ""

\* both, for every query parameter of the model
KeyOf == [rawKey \in Handles |-> NormalizeKey(rawKey)]
ShapeErrorOf == [rawKey \in Handles |-> KeyShapeError(NormalizeKey(rawKey))]

\* a registry looked up by the name of the key
ValidUploadKeyByName(keys, uploadKey) ==
  \E i \in 1..Len(keys) : uploadNameFromKey(keys[i]) = uploadNameFromKey(uploadKey)

\* slices.Contains(uploadKeys, uploadKey)
ValidUploadKey(keys, uploadKey) == \E i \in 1..Len(keys) : keys[i] = uploadKey

KeyStart(t, kind, rawKey, position, next) ==
  /\ Begin(t, kind, rawKey, position)
  /\ loc' = [loc EXCEPT ![t].uploadKey = KeyOf[rawKey]]
  /\ IF ShapeErrorOf[rawKey] # ""
     THEN Finish(t, Reply(400, ShapeErrorOf[rawKey]))
     ELSE Goto(t, next)
  /\ UNCHANGED <<uploadKeys, uploadKeysMutex, store, ghost>>

KeyLock(t, here, next) ==
  /\ pc[t] = here
  /\ Lock(t)
  /\ Goto(t, next)
  /\ UNCHANGED <<uploadKeys, store, req, loc, ghost, lastFollow>>

\* a lookup that returns on an unknown key without giving the lock back
KeyCheckLockedOnReject(t, here, next) ==
  /\ pc[t] = here
  /\ uploadKeysMutex = t
  /\ IF ValidUploadKey(uploadKeys, loc[t].uploadKey)
     THEN uploadKeysMutex' = "free" /\ Goto(t, next)
     ELSE /\ uploadKeysMutex' = uploadKeysMutex
          /\ Finish(t, Reply(400, "invalid upload_key value: generate another one and try again"))
  /\ UNCHANGED <<uploadKeys, store, req, loc, ghost, lastFollow>>

KeyCheck(t, here, next) ==
  /\ pc[t] = here
  /\ Unlock(t)
  /\ IF ValidUploadKey(uploadKeys, loc[t].uploadKey)
     THEN Goto(t, next)
     ELSE Finish(t, Reply(400, "invalid upload_key value: generate another one and try again"))
  /\ UNCHANGED <<uploadKeys, store, req, loc, ghost, lastFollow>>

(***************************************************************************)
(* UploadHandler.                                                          *)
(***************************************************************************)
UploadStart(t, in) ==
  \E rawKey \in in.rawKeys : KeyStart(t, "upload", rawKey, 0, "up_lock")

UploadLock(t) == KeyLock(t, "up_lock", "up_check")

UploadCheck(t) == KeyCheck(t, "up_check", "up_read")

\* the records stored so far and those on their way, which the model bounds
Stored ==
  LET n[S \in SUBSET Paths] ==
        IF S = {} THEN 0
        ELSE LET p == CHOOSE q \in S : TRUE IN Len(acked[p]) + n[S \ {p}]
      m[S \in SUBSET Tasks] ==
        IF S = {} THEN 0
        ELSE LET u == CHOOSE v \in S : TRUE
             IN  (IF pc[u] \in {"idle", "done"} THEN 0 ELSE loc[u].records) + m[S \ {u}]
  IN  n[Paths] + m[Tasks]

\* the User-Agent header, time.Now() and the loop over the body
UploadRead(t, in) ==
  /\ pc[t] = "up_read"
  /\ \E userAgent \in in.userAgents, receivedAt \in in.times,
        body \in in.bodies, bodyErr \in in.bodyErrs :
       LET parsed == ParseBody(body, <<>>, 0)
           uploadName == uploadNameFromKey(loc[t].uploadKey)
       IN
       /\ Stored + parsed.records <= in.maxRecords
       /\ req' = [req EXCEPT ![t].body = body, ![t].bodyErr = bodyErr]
       /\ loc' = [loc EXCEPT ![t].uploadName = uploadName,
                             ![t].userAgent = userAgent,
                             ![t].receivedAt = receivedAt,
                             ![t].lines = parsed.lines,
                             ![t].records = parsed.records]
       /\ IF ~parsed.ok
          THEN Finish(t, [Reply(400, "invalid JSON on line") EXCEPT !.line = parsed.lineNumber])
          ELSE IF bodyErr
               THEN Finish(t, Reply(400, "error reading request body"))
               ELSE Goto(t, "sv_open")
  /\ UNCHANGED <<uploadKeys, uploadKeysMutex, store, ghost, lastFollow>>

(***************************************************************************)
(* saveUpload, one action per system call; the writes of the bufio.Writer  *)
(* reach the file chunk by chunk.                                          *)
(***************************************************************************)
\* os.MkdirAll and os.OpenFile(filePath, O_CREATE|O_RDWR)
\* the tasks that hold inode i open
Holders(i) ==
  {u \in Tasks : loc[u].ino = i /\ pc[u] \notin {"idle", "done"}}

\* the inodes no path names and no task holds open: the file system has them back
FreeInodes ==
  {i \in 1..Len(inodes) : Holders(i) = {} /\ \A p \in Paths : dir[p] # i}

SaveOpen(t) ==
  /\ pc[t] = "sv_open"
  /\ LET filePath == FilePath(loc[t].uploadName, loc[t].uploadKey)
         create == dir[filePath] = 0
         ino == IF ~create THEN dir[filePath]
                ELSE IF FreeInodes # {} THEN CHOOSE i \in FreeInodes : \A j \in FreeInodes : i <= j
                ELSE Len(inodes) + 1
     IN  /\ dirExists' = TRUE
         /\ inodes' = IF ~create THEN inodes
                      ELSE IF ino <= Len(inodes) THEN [inodes EXCEPT ![ino] = <<>>]
                      ELSE Append(inodes, <<>>)
         /\ dir' = [dir EXCEPT ![filePath] = ino]
         /\ loc' = [loc EXCEPT ![t].filePath = filePath,
                               ![t].ino = ino,
                               ![t].wrote = create \/ ~dirExists,
                               ![t].created = create]
         /\ lastFollow' = IF create \/ ~dirExists THEN NoFollow ELSE lastFollow
  /\ Goto(t, "sv_stat")
  /\ UNCHANGED <<uploadKeys, uploadKeysMutex, req, ghost>>

\* file.Stat
SaveStat(t) ==
  /\ pc[t] = "sv_stat"
  /\ LET size == Len(inodes[loc[t].ino])
         isNew == size = 0
     IN  /\ loc' = [loc EXCEPT ![t].size = size,
                               ![t].isNew = isNew,
                               ![t].cleanupOnErr = isNew]
         /\ Goto(t, IF isNew THEN "sv_seek" ELSE "sv_scan")
  /\ UNCHANGED <<uploadKeys, uploadKeysMutex, store, req, ghost, lastFollow>>

\* the scan of the file from its start
SaveScan(t) ==
  /\ pc[t] = "sv_scan"
  /\ loc' = [loc EXCEPT ![t].existingRecords = ExistingRecords(inodes[loc[t].ino])]
  /\ Goto(t, "sv_readat")
  /\ UNCHANGED <<uploadKeys, uploadKeysMutex, store, req, ghost, lastFollow>>

\* a file taken to end with a line feed
NeedsTrailingNewlineNever(lastByte) == FALSE

NeedsTrailingNewline(lastByte) == lastByte # NL

\* file.ReadAt(lastByte, info.Size()-1)
SaveReadAt(t) ==
  /\ pc[t] = "sv_readat"
  /\ loc' = [loc EXCEPT ![t].needsTrailingNewline =
                           NeedsTrailingNewline(inodes[loc[t].ino][loc[t].size])]
  /\ Goto(t, "sv_seek")
  /\ UNCHANGED <<uploadKeys, uploadKeysMutex, store, req, ghost, lastFollow>>

\* the records an upload answered 200 has been told are stored
AckedRecords(existingRecords, lines) ==
  [i \in 1..Len(lines) |-> [index |-> StartIndex(existingRecords) + i - 1, line |-> lines[i]]]

\* saveUpload returns the path and UploadHandler answers 200
UploadOK(t) ==
  /\ Finish(t, [Reply(200, "ok") EXCEPT !.records = loc[t].records,
                                        !.file_path = loc[t].filePath,
                                        !.name = loc[t].uploadName])
  /\ acked' = [acked EXCEPT ![loc[t].filePath] =
                 @ \o AckedRecords(loc[t].existingRecords, loc[t].lines)]

\* the offset file.Seek(0, io.SeekStart) returns
SeekStart(content) == 0

\* the offset file.Seek(0, io.SeekEnd) returns
SeekEnd(content) == Len(content)

\* file.Seek(0, io.SeekEnd) and the write calls, which fill the buffer
SaveSeek(t) ==
  /\ pc[t] = "sv_seek"
  /\ LET l == loc[t]
         chunks == BufioChunks(
                     WriteCalls(l.isNew, l.needsTrailingNewline,
                                MetadataJSON(l.uploadKey, l.uploadName, l.userAgent, l.receivedAt),
                                l.existingRecords, l.lines),
                     <<>>, <<>>)
     IN  /\ loc' = [loc EXCEPT ![t].pos = SeekEnd(inodes[l.ino]), ![t].chunks = chunks]
         /\ IF chunks = <<>>
            THEN UploadOK(t)
            ELSE Goto(t, "sv_write") /\ acked' = acked
  /\ UNCHANGED <<uploadKeys, uploadKeysMutex, store, req, faulted, faults, lastFollow, lastCursor, received>>

\* one write of the buffer to the file
SaveWrite(t) ==
  /\ pc[t] = "sv_write"
  /\ LET l == loc[t]
         chunk == Head(l.chunks)
     IN  /\ inodes' = [inodes EXCEPT ![l.ino] = WriteAt(@, l.pos, chunk)]
         /\ loc' = [loc EXCEPT ![t].pos = @ + Len(chunk),
                               ![t].chunks = Tail(@),
                               ![t].wrote = TRUE]
         /\ IF Tail(l.chunks) = <<>>
            THEN UploadOK(t)
            ELSE Goto(t, "sv_write") /\ acked' = acked
  /\ lastFollow' = NoFollow
  /\ UNCHANGED <<uploadKeys, uploadKeysMutex, dirExists, dir, req, faulted, faults, lastCursor, received>>

\* a write that fails: a part of the buffer reaches the file, and the error ends
\* saveUpload
SaveWriteFail(t) ==
  /\ pc[t] = "sv_write"
  /\ faults < MaxFaults
  /\ LET l == loc[t]
         chunk == Head(l.chunks)
     IN  \E n \in 0..(Len(chunk) - 1) :
           /\ inodes' = [inodes EXCEPT ![l.ino] = WriteAt(@, l.pos, SubSeq(chunk, 1, n))]
           /\ loc' = [loc EXCEPT ![t].pos = @ + n, ![t].wrote = @ \/ n > 0]
           /\ faulted' = faulted \cup {l.filePath}
  /\ faults' = faults + 1
  /\ Goto(t, "sv_cleanup")
  /\ lastFollow' = NoFollow
  /\ UNCHANGED <<uploadKeys, uploadKeysMutex, dirExists, dir, req, acked, lastCursor, received>>

\* the deferred function on an error: file.Close and, for a file this call found
\* empty, os.Remove(filePath)
SaveCleanup(t) ==
  /\ pc[t] = "sv_cleanup"
  /\ LET remove == loc[t].cleanupOnErr /\ dir[loc[t].filePath] # 0 IN
     /\ dir' = IF remove THEN [dir EXCEPT ![loc[t].filePath] = 0] ELSE dir
     /\ loc' = [loc EXCEPT ![t].wrote = @ \/ remove]
     /\ lastFollow' = IF remove THEN NoFollow ELSE lastFollow
     /\ inodes' = IF remove /\ Holders(loc[t].ino) = {t}
                  THEN [inodes EXCEPT ![loc[t].ino] = <<>>]
                  ELSE inodes
  /\ Finish(t, Reply(500, "failed to store upload"))
  /\ UNCHANGED <<uploadKeys, uploadKeysMutex, dirExists, req, ghost>>

(***************************************************************************)
(* The follow endpoint.                                                    *)
(***************************************************************************)
\* the cursors a follow may give: any of the model, or, for the follower of a
\* key, the new cursor of its last follow
FollowCursors(in, rawKey) ==
  IF in.chain /\ KeyOf[rawKey] \in KeyPool THEN {lastCursor[KeyOf[rawKey]]} ELSE in.cursors

FollowStart(t, in) ==
  \E rawKey \in in.rawKeys :
    \E position \in FollowCursors(in, rawKey) :
      KeyStart(t, "follow", rawKey, position, "fo_lock")

FollowLock(t) == KeyLock(t, "fo_lock", "fo_check")

FollowCheck(t) == KeyCheck(t, "fo_check", "fo_read")

\* the data lines of a file: the lines after the first
DataLines(content) ==
  LET scanned == ScanLines(content)
  IN  IF scanned = <<>> THEN <<>> ELSE NonBlank(Tail(scanned))

\* an answer that holds every data line of the file, whatever the cursor
FollowResultWholeFile(content, position) ==
  IF content = NoFile THEN [Reply(204, "") EXCEPT !.position = 0]
  ELSE LET lines == DataLines(content)
           total == Len(lines)
       IN  IF total <= position
           THEN [Reply(204, "") EXCEPT !.position = total]
           ELSE [Reply(200, "") EXCEPT !.position = total, !.lines = lines]

FollowResult(content, position) ==
  IF content = NoFile THEN [Reply(204, "") EXCEPT !.position = 0]
  ELSE LET lines == DataLines(content)
           total == Len(lines)
       IN  IF total <= position
           THEN [Reply(204, "") EXCEPT !.position = total]
           ELSE [Reply(200, "") EXCEPT !.position = total,
                                       !.lines = SubSeq(lines, position + 1, total)]

\* the follow just answered, kept while no other request is being served, and
\* whether it asked again what the follow before it asked
FollowSeen(t, result) ==
  IF \A u \in Tasks \ {t} : pc[u] = "idle"
  THEN [uploadKey |-> loc[t].uploadKey, position |-> req[t].position, resp |-> result,
        again |-> /\ lastFollow.resp.status # 0
                  /\ lastFollow.uploadKey = loc[t].uploadKey
                  /\ lastFollow.position = req[t].position]
  ELSE NoFollow

\* the new cursor the follow just answered was given, where the requests keep
\* track of it
CursorSeen(t, in, result) ==
  IF in.track THEN [lastCursor EXCEPT ![loc[t].uploadKey] = result.position]
  ELSE lastCursor

\* the lines the follower of a key has been given, the follow just answered
\* included
LinesSeen(t, in, result) ==
  IF in.chain THEN [received EXCEPT ![loc[t].uploadKey] = @ \o result.lines]
  ELSE received

\* a read that opens the file as the upload does, creating it
FollowReadCreating(t, in) ==
  /\ pc[t] = "fo_read"
  /\ LET uploadName == uploadNameFromKey(loc[t].uploadKey)
         filePath == FilePath(uploadName, loc[t].uploadKey)
         create == dir[filePath] = 0
         result == FollowResult(IF create THEN <<>> ELSE File(filePath), req[t].position)
     IN  /\ dirExists' = TRUE
         /\ inodes' = IF create THEN Append(inodes, <<>>) ELSE inodes
         /\ dir' = [dir EXCEPT ![filePath] = IF create THEN Len(inodes) + 1 ELSE @]
         /\ loc' = [loc EXCEPT ![t].uploadName = uploadName, ![t].filePath = filePath]
         /\ Finish(t, result)
         /\ lastFollow' = FollowSeen(t, result)
         /\ lastCursor' = CursorSeen(t, in, result)
         /\ received' = LinesSeen(t, in, result)
  /\ UNCHANGED <<uploadKeys, uploadKeysMutex, req, acked, faulted, faults>>

FollowRead(t, in) ==
  /\ pc[t] = "fo_read"
  /\ LET uploadName == uploadNameFromKey(loc[t].uploadKey)
         filePath == FilePath(uploadName, loc[t].uploadKey)
         result == FollowResult(File(filePath), req[t].position)
     IN  /\ loc' = [loc EXCEPT ![t].uploadName = uploadName, ![t].filePath = filePath]
         /\ Finish(t, result)
         /\ lastFollow' = FollowSeen(t, result)
         /\ lastCursor' = CursorSeen(t, in, result)
         /\ received' = LinesSeen(t, in, result)
  /\ UNCHANGED <<uploadKeys, uploadKeysMutex, store, req, acked, faulted, faults>>

(***************************************************************************)
(* The task is free for the next request.                                  *)
(***************************************************************************)
Return(t) ==
  /\ pc[t] = "done"
  /\ pc' = [pc EXCEPT ![t] = "idle"]
  /\ req' = [req EXCEPT ![t] = NoReq]
  /\ loc' = [loc EXCEPT ![t] = NoLoc]
  /\ resp' = [resp EXCEPT ![t] = NoResp]
  /\ UNCHANGED <<uploadKeys, uploadKeysMutex, store, ghost, lastFollow>>

Step(t, in) ==
  \/ IssueLock(t) \/ IssueAppend(t)
  \/ UploadLock(t) \/ UploadCheck(t) \/ UploadRead(t, in)
  \/ SaveOpen(t) \/ SaveStat(t) \/ SaveScan(t) \/ SaveReadAt(t)
  \/ SaveSeek(t) \/ SaveWrite(t)
  \/ FollowLock(t) \/ FollowCheck(t) \/ FollowRead(t, in)
  \/ Return(t)

\* the steps of a request whose write to the file fails
FaultStep(t) == SaveWriteFail(t) \/ SaveCleanup(t)

Start(t, in) == IssueStart(t, in) \/ UploadStart(t, in) \/ FollowStart(t, in)

\* one task per request, requests served at once, the writes to the file all
\* succeeding
Next == \E t \in Tasks : Start(t, Conc) \/ Step(t, Conc)

Spec == Init /\ [][Next]_vars

\* requests served one after the other, the writes to the file all succeeding
SeqNext == Start("t1", Rich) \/ Step("t1", Rich)

SeqSpec == Init /\ [][SeqNext]_vars

\* requests served one after the other, a write to the file failing
FaultNext == Start("t1", Lean1) \/ Step("t1", Lean1) \/ FaultStep("t1")

FaultSpec == Init /\ [][FaultNext]_vars

\* requests served one after the other, a batch sent again
TwiceNext == Start("t1", Twice) \/ Step("t1", Twice)

TwiceSpec == Init /\ [][TwiceNext]_vars

\* requests served one after the other, the follows being those of one follower
ChainNext == Start("t1", Chain) \/ Step("t1", Chain)

ChainSpec == Init /\ [][ChainNext]_vars

\* requests under two keys served one after the other, a write to the file
\* failing
PairNext == Start("t1", Pair) \/ Step("t1", Pair) \/ FaultStep("t1")

PairSpec == Init /\ [][PairNext]_vars

\* requests served at once, a write to the file failing
RaceNext == \E t \in Tasks : Start(t, Race) \/ Step(t, Race) \/ FaultStep(t)

RaceSpec == Init /\ [][RaceNext]_vars

\* the step in which t takes the registry lock: sync.Mutex hands the lock to a
\* waiter that has waited long (starvation mode), so a task that can take it
\* again and again does take it
Acquire(t) == IssueLock(t) \/ UploadLock(t) \/ FollowLock(t)

\* the steps of the request t serves, and the return of its goroutine
Work(t) == Step(t, Live)

LiveNext == \E t \in Tasks : Start(t, Live) \/ Step(t, Live)

\* requests served at once by goroutines the Go scheduler keeps running, the
\* writes to the file all succeeding
LiveSpec ==
  /\ Init
  /\ [][LiveNext]_vars
  /\ \A t \in Tasks : WF_vars(Work(t)) /\ SF_vars(Acquire(t))

(***************************************************************************)
(* uploadNameFromKey by itself: each task is handed the characters of a    *)
(* key, well formed or not, and derives the name from them.                *)
(***************************************************************************)
BytePairs == { <<"0","0","0","1">>, <<"0","1","0","0">>, <<"f","f","f","f">> }

EightBytes == {a \o b \o c \o d : a \in BytePairs, b \in BytePairs, c \in BytePairs, d \in BytePairs}

OddKeys ==
  { <<>>,
    <<"0","0","0","1", "0","1","0","0", "f","f","f","f", "0","0">>,
    <<"0","0","0","1", "0","1","0","0", "f","f","f","f", "0","0","0","1", "0">>,
    <<"0","0","0","1", "0","1","0","0", "f","f","f","f", "0","0","0","1", "0","1">>,
    <<"0","0","0","1", "0","1","0","0", "f","f","f","f", "0","0","0","g">>,
    <<"0","0","0","1", "0","1","0","0", " ","f","f","f", "0","0","0","1">>,
    <<"0","0","0","1", "0","1","0","0", "F","F","F","F", "0","0","0","1">>,
    <<" ">> \o <<"0","0","0","1", "0","1","0","0", "f","f","f","f", "0","0","0","1">> \o <<" ">>,
    <<" ">> \o <<"0","0","0","1", "0","1","0","0", "f","f","f","f", "0","0">>,
    Text["key1"],
    Text["key1 padded"] }

NameKeys == EightBytes \cup OddKeys

NameInit ==
  /\ uploadKeys = <<>>
  /\ uploadKeysMutex = "free"
  /\ dirExists = FALSE
  /\ dir = [p \in Paths |-> 0]
  /\ inodes = <<>>
  /\ pc = [t \in Tasks |-> "idle"]
  /\ req = [t \in Tasks |-> NoReq]
  /\ \E k1 \in NameKeys, k2 \in NameKeys :
       loc = ("t1" :> [NoLoc EXCEPT !.uploadKey = k1]) @@ ("t2" :> [NoLoc EXCEPT !.uploadKey = k2])
  /\ resp = [t \in Tasks |-> NoResp]
  /\ acked = [p \in Paths |-> <<>>]
  /\ faulted = {}
  /\ faults = 0
  /\ lastFollow = NoFollow
  /\ lastCursor = [k \in KeyPool |-> 0]
  /\ received = [k \in KeyPool |-> <<>>]

NameCall(t) ==
  /\ pc[t] = "idle"
  /\ loc' = [loc EXCEPT ![t].uploadName = NameFromText(loc[t].uploadKey)]
  /\ pc' = [pc EXCEPT ![t] = "done"]
  /\ UNCHANGED <<uploadKeys, uploadKeysMutex, dirExists, dir, inodes, req, resp,
                 acked, faulted, faults, lastFollow, lastCursor, received>>

NameNext == \E t \in Tasks : NameCall(t)

NameSpec == NameInit /\ [][NameNext]_vars

(***************************************************************************)
(* Definitions the properties below are written with.                     *)
(***************************************************************************)
\* no request is being served
Quiescent == \A t \in Tasks : pc[t] \in {"idle", "done"}

\* t has answered an upload, a follow
Answered(t, kind) == pc[t] = "done" /\ req[t].kind = kind

\* the text of a stored record
RecordLine(index, line) == Itoa(index) \o <<",">> \o line

\* the lines of a file after its first line
LinesAfterFirst(content) ==
  IF ScanLines(content) = <<>> THEN <<>> ELSE Tail(ScanLines(content))

HasFirstLine(content) == content # NoFile /\ NL \in Range(content)

FirstLine(content) == Head(ScanLines(content))

\* a body holds a line that is not JSON
HasInvalidLine(body) ==
  \E i \in 1..Len(body) : TrimSpace(body[i]) # <<>> /\ ~JSONValid(TrimSpace(body[i]))

(***************************************************************************)
(* C1.  After uploads answered 200, served one after the other, the data   *)
(* lines of the file are, in file order, "i,<payload>" for i = 1, 2, ...   *)
(* with no gap and no repeat, the payload at i being the i-th line         *)
(* submitted overall, and every line ends with a line feed.                *)
(***************************************************************************)
C1_IndicesContiguous ==
  Quiescent =>
    \A p \in Paths :
      File(p) # NoFile =>
        /\ File(p) # <<>> /\ Last(File(p)) = NL
        /\ LinesAfterFirst(File(p)) =
             [i \in 1..Len(acked[p]) |-> RecordLine(i, acked[p][i].line)]

\* two batches have been stored under one key, the second one just now
C1_Witness ==
  \E t \in Tasks :
    /\ Answered(t, "upload") /\ resp[t].status = 200 /\ resp[t].records = 1
    /\ Len(acked[loc[t].filePath]) = 2
    /\ acked[loc[t].filePath][1].line # acked[loc[t].filePath][2].line

(***************************************************************************)
(* C2.  Once a file has a first line, that line never changes, whatever    *)
(* uploads and follows are served.                                         *)
(***************************************************************************)
C2_FirstLineImmutable ==
  [][\A p \in Paths :
       (HasFirstLine(File(p)) /\ File(p)' # NoFile) =>
         (HasFirstLine(File(p)') /\ FirstLine(File(p)') = FirstLine(File(p)))]_vars

(***************************************************************************)
(* C3.  An upload whose body holds a line that is not JSON is answered 400 *)
(* as soon as the body is read, and has created and written nothing.       *)
(***************************************************************************)
C3_InvalidBatchWritesNothing ==
  \A t \in Tasks :
    (req[t].kind = "upload" /\ HasInvalidLine(req[t].body)) =>
      /\ pc[t] = "done"
      /\ resp[t].status = 400
      /\ ~loc[t].wrote

\* a valid line before the invalid one, for a key whose file holds records
C3_Witness ==
  \E t \in Tasks :
    /\ Answered(t, "upload")
    /\ req[t].body = << <<"7">>, <<"x">> >>
    /\ resp[t].status = 400
    /\ \E p \in Paths : File(p) # NoFile /\ Len(acked[p]) > 0

(***************************************************************************)
(* C4.  An upload with a key the registry does not hold (missing, of the   *)
(* wrong length, not hexadecimal, or never issued) goes no further than    *)
(* the check of the key, is answered 400, and creates and writes nothing.  *)
(***************************************************************************)
C4_UnissuedKeyRejected ==
  \A t \in Tasks :
    (req[t].kind = "upload" /\ ~(\E i \in 1..Len(uploadKeys) : uploadKeys[i] = loc[t].uploadKey)) =>
      /\ pc[t] \in {"up_lock", "up_check", "done"}
      /\ pc[t] = "done" => resp[t].status = 400
      /\ ~loc[t].wrote

\* a well-formed key that was never issued, while another key is issued
C4_Witness ==
  \E t \in Tasks :
    /\ Answered(t, "upload")
    /\ req[t].rawKey = "never"
    /\ resp[t].status = 400
    /\ uploadKeys # <<>>

(***************************************************************************)
(* C5.  A follow with cursor c on a file holding total data lines is       *)
(* answered, when total > c, with 200, the new cursor total and the stored *)
(* lines whose index is above c and at most total, in stored order; and    *)
(* otherwise with 204, the new cursor total and no line.                   *)
(***************************************************************************)
\* the number a stored line starts with
IndexOf(line) ==
  LET RECURSIVE Atoi(_, _)
      Atoi(text, n) ==
        IF text = <<>> \/ Head(text) \notin Range(Digits) THEN n
        ELSE Atoi(Tail(text), 10 * n + (CHOOSE d \in 0..9 : Digits[d + 1] = Head(text)))
  IN  Atoi(line, 0)

LinesIndexedIn(stored, low, high) ==
  LET Within(line) == IndexOf(line) > low /\ IndexOf(line) <= high
  IN  SelectSeq(stored, Within)

C5_FollowReturnsNewLines ==
  \A t \in Tasks :
    (/\ Answered(t, "follow")
     /\ resp[t].status \in {200, 204}
     /\ File(loc[t].filePath) # NoFile) =>
      LET stored == LinesAfterFirst(File(loc[t].filePath))
          total == Len(stored)
          c == req[t].position
      IN  IF total > c
          THEN /\ resp[t].status = 200
               /\ resp[t].position = total
               /\ resp[t].lines = LinesIndexedIn(stored, c, total)
               /\ Len(resp[t].lines) = total - c
          ELSE /\ resp[t].status = 204
               /\ resp[t].position = total
               /\ resp[t].lines = <<>>

\* a cursor inside the file: one line is old, one is new
C5_Witness ==
  \E t \in Tasks :
    /\ Answered(t, "follow")
    /\ req[t].position = 1
    /\ resp[t].status = 200
    /\ resp[t].position = 2
    /\ Len(resp[t].lines) = 1

(***************************************************************************)
(* C6.  A follow under an issued key for which no file exists is answered  *)
(* 204 with the new cursor 0 and no line, whatever cursor it gave.         *)
(***************************************************************************)
C6_FollowWithoutFile ==
  \A t \in Tasks :
    (/\ Answered(t, "follow")
     /\ \E i \in 1..Len(uploadKeys) : uploadKeys[i] = KeyOf[req[t].rawKey]
     /\ File(FilePath(NameOf[KeyOf[req[t].rawKey]], KeyOf[req[t].rawKey])) = NoFile) =>
      /\ resp[t].status = 204
      /\ resp[t].position = 0
      /\ resp[t].lines = <<>>

\* a cursor far from 0, and still no file
C6_Witness ==
  \E t \in Tasks :
    /\ Answered(t, "follow")
    /\ req[t].position = MaxCursor
    /\ resp[t].status = 204
    /\ resp[t].position = 0
    /\ loc[t].filePath # "" /\ File(loc[t].filePath) = NoFile

(***************************************************************************)
(* C7.  No step of a follow changes a file, the directory or the registry, *)
(* and a follow that asks again what the follow before it asked, no upload *)
(* having come between, is given the same answer.                          *)
(***************************************************************************)
C7_FollowReadOnly ==
  [][\A t \in Tasks :
       /\ (req'[t].kind = "follow" /\ pc'[t] # pc[t]) =>
            (store' = store /\ uploadKeys' = uploadKeys)
       /\ (/\ pc[t] = "fo_read" /\ pc'[t] = "done"
           /\ lastFollow.resp.status # 0
           /\ lastFollow.uploadKey = loc[t].uploadKey
           /\ lastFollow.position = req[t].position) =>
            resp'[t] = lastFollow.resp]_vars

\* the same follow answered a second time, with lines
C7_Witness ==
  \E t \in Tasks :
    /\ Answered(t, "follow")
    /\ lastFollow.again
    /\ resp[t].status = 200
    /\ resp[t] = lastFollow.resp

(***************************************************************************)
(* C8.  A record of an upload answered 200 stays in the file, as the line  *)
(* "<index>,<payload>" it was stored as, whatever requests are served      *)
(* after or during the upload.                                             *)
(***************************************************************************)
C8_AckedRecordsStay ==
  \A p \in Paths :
    \A i \in 1..Len(acked[p]) :
      /\ File(p) # NoFile
      /\ \E j \in 1..Len(ScanLines(File(p))) :
           ScanLines(File(p))[j] = RecordLine(acked[p][i].index, acked[p][i].line)

(***************************************************************************)
(* C9.  With requests served one after the other, a step that leaves a     *)
(* file in place leaves its old bytes as a prefix of the new ones, and the *)
(* bytes an upload has added are the metadata line (on an empty file) and  *)
(* the record lines, after one line feed when the file ended without one:  *)
(* all of them when the upload is answered 200, a proper prefix of them    *)
(* when a write failed.                                                    *)
(***************************************************************************)
RECURSIVE RecordLines(_, _)
RecordLines(index, lines) ==
  IF lines = <<>> THEN <<>>
  ELSE RecordLine(index, Head(lines)) \o <<NL>> \o RecordLines(index + 1, Tail(lines))

\* the bytes the upload of t found in the file, and the bytes it added
BytesBefore(t) == SubSeq(inodes[loc[t].ino], 1, loc[t].size)

BytesAdded(t) == SubSeq(inodes[loc[t].ino], loc[t].size + 1, Len(inodes[loc[t].ino]))

CorrectiveNewline(t) ==
  IF BytesBefore(t) # <<>> /\ Last(BytesBefore(t)) # NL THEN <<NL>> ELSE <<>>

LinesToAdd(t) ==
  (IF BytesBefore(t) = <<>>
   THEN MetadataJSON(loc[t].uploadKey, loc[t].uploadName, loc[t].userAgent,
                     loc[t].receivedAt) \o <<NL>>
   ELSE <<>>)
  \o RecordLines(loc[t].existingRecords + 1, loc[t].lines)

AddedOnlyLines(t) ==
  (Answered(t, "upload") /\ resp[t].status \in {200, 500}) =>
    IF resp[t].status = 200
    THEN BytesAdded(t) = CorrectiveNewline(t) \o LinesToAdd(t)
    ELSE /\ IsPrefix(BytesAdded(t), CorrectiveNewline(t) \o LinesToAdd(t))
         /\ BytesAdded(t) # CorrectiveNewline(t) \o LinesToAdd(t)

C9_AppendOnly ==
  [][/\ \A p \in Paths :
          (File(p) # NoFile /\ File(p)' # NoFile) => IsPrefix(File(p), File(p)')
     /\ \A t \in Tasks : AddedOnlyLines(t)']_vars

\* a write that failed on a file that held records, leaving a part of a line
C9_Witness ==
  \E t \in Tasks :
    /\ Answered(t, "upload")
    /\ resp[t].status = 500
    /\ ~loc[t].isNew
    /\ BytesAdded(t) # <<>>
    /\ File(loc[t].filePath) = inodes[loc[t].ino]

(***************************************************************************)
(* C10.  An upload answered 200 that found the file non-empty has written  *)
(* one line feed ahead of its records when the file ended without one and  *)
(* none when it ended with one; the lines the file had are the first lines *)
(* it has now; the lines after them are the new records, one per line; and *)
(* every record of an upload answered 200 is on one line only.             *)
(***************************************************************************)
Count(x, s) == Cardinality({j \in 1..Len(s) : s[j] = x})

C10_SeparatorNewline ==
  \A t \in Tasks :
    (Answered(t, "upload") /\ resp[t].status = 200 /\ loc[t].size > 0) =>
      LET content == inodes[loc[t].ino]
          added == BytesAdded(t)
          old == ScanLines(BytesBefore(t))
          now == ScanLines(content)
      IN  /\ IF Last(BytesBefore(t)) # NL
             THEN /\ added # <<>> /\ added[1] = NL
                  /\ Len(added) > 1 => added[2] # NL
             ELSE added = <<>> \/ added[1] # NL
          /\ IsPrefix(old, now)
          /\ SubSeq(now, Len(old) + 1, Len(now)) =
               [i \in 1..Len(loc[t].lines) |->
                  RecordLine(loc[t].existingRecords + i, loc[t].lines[i])]
          /\ loc[t].lines # <<>> => Last(content) = NL
          /\ \A i \in 1..Len(acked[loc[t].filePath]) :
               Count(RecordLine(acked[loc[t].filePath][i].index,
                                acked[loc[t].filePath][i].line), now) = 1

\* the file ended in the middle of a line, and a record went in after it
C10_Witness ==
  \E t \in Tasks :
    /\ Answered(t, "upload")
    /\ resp[t].status = 200
    /\ loc[t].size > 0
    /\ Last(BytesBefore(t)) # NL
    /\ loc[t].records > 0

(***************************************************************************)
(* C11.  A failing upload deletes the file only if it is the call that     *)
(* created it: a step that takes a file away is the cleanup of a call      *)
(* whose os.OpenFile created that file, and the file holds no record of an *)
(* upload answered 200.                                                    *)
(***************************************************************************)
C11_OnlyCreatorDeletes ==
  [][\A p \in Paths :
       (dir[p] # 0 /\ dir'[p] = 0) =>
         /\ \E t \in Tasks :
              pc[t] = "sv_cleanup" /\ pc'[t] = "done" /\ loc[t].filePath = p /\ loc[t].created
         /\ acked[p] = <<>>]_vars

(***************************************************************************)
(* C12.  An upload that fails on a file that existed before the call       *)
(* leaves the file as it was: the file is still there and holds no byte    *)
(* of the failed batch.                                                    *)
(***************************************************************************)
C12_FailedAppendLeavesFile ==
  \A t \in Tasks :
    (Answered(t, "upload") /\ resp[t].status = 500 /\ ~loc[t].created) =>
      /\ File(loc[t].filePath) = inodes[loc[t].ino]
      /\ BytesAdded(t) = <<>>

(***************************************************************************)
(* C13.  Uploads under one key are not serialised: what an upload writes   *)
(* is fixed by the count its own scan gave, first index count + 1,         *)
(* whatever other uploads have written to the file since; two overlapping  *)
(* uploads whose scans gave the same count write the same indices.         *)
(***************************************************************************)
\* the bytes the upload of t writes, by what its stat, scan and read gave
BytesToWrite(t) ==
  (IF loc[t].isNew
   THEN MetadataJSON(loc[t].uploadKey, loc[t].uploadName, loc[t].userAgent,
                     loc[t].receivedAt) \o <<NL>>
   ELSE IF loc[t].needsTrailingNewline THEN <<NL>> ELSE <<>>)
  \o RecordLines(loc[t].existingRecords + 1, loc[t].lines)

IsSuffix(s, t) == Len(s) <= Len(t) /\ SubSeq(t, Len(t) - Len(s) + 1, Len(t)) = s

C13_IndexFromOwnScan ==
  \A t \in Tasks :
    /\ pc[t] = "sv_write" =>
         /\ loc[t].chunks # <<>>
         /\ IsSuffix(Flatten(loc[t].chunks), BytesToWrite(t))
    /\ (Answered(t, "upload") /\ resp[t].status = 200) =>
         \A i \in 1..Len(loc[t].lines) :
           \E j \in 1..Len(acked[loc[t].filePath]) :
             acked[loc[t].filePath][j] =
               [index |-> loc[t].existingRecords + i, line |-> loc[t].lines[i]]

\* two uploads answered 200 took the same count from their scans, and the file
\* holds two lines with one index
C13_Witness ==
  \E t \in Tasks, u \in Tasks :
    /\ t # u
    /\ Answered(t, "upload") /\ resp[t].status = 200 /\ loc[t].lines # <<>>
    /\ Answered(u, "upload") /\ resp[u].status = 200 /\ loc[u].lines # <<>>
    /\ loc[t].filePath = loc[u].filePath
    /\ loc[t].existingRecords = loc[u].existingRecords
    /\ LET now == ScanLines(File(loc[t].filePath))
       IN  \E j \in 1..Len(now), k \in 1..Len(now) :
             /\ j < k
             /\ now[j] = RecordLine(loc[t].existingRecords + 1, loc[t].lines[1])
             /\ now[k] = RecordLine(loc[u].existingRecords + 1, loc[u].lines[1])

(***************************************************************************)
(* C14.  The bytes of one upload reach the file in a single write: while   *)
(* an upload still has bytes to write, none of its bytes is in the file,   *)
(* so no other request finds the file holding a part of the batch.         *)
(***************************************************************************)
C14_SingleFlush ==
  \A t \in Tasks :
    pc[t] = "sv_write" => Flatten(loc[t].chunks) = BytesToWrite(t)

(***************************************************************************)
(* C15.  The registry only grows: every step leaves the keys it held in    *)
(* place, and a key an issue has returned is in the registry when the      *)
(* issue returns, so it is valid then and in every later state, also when  *)
(* issues are served at once.                                              *)
(***************************************************************************)
C15_RegistryGrows ==
  [][/\ IsPrefix(uploadKeys, uploadKeys')
     /\ \A t \in Tasks :
          (pc'[t] = "done" /\ req'[t].kind = "issue" /\ resp'[t].status = 200) =>
            /\ resp'[t].upload_key = loc'[t].uploadKey
            /\ ValidUploadKey(uploadKeys', resp'[t].upload_key)]_vars

\* two issues served at once have returned two keys, and the registry holds both
C15_Witness ==
  /\ \A t \in Tasks : Answered(t, "issue") /\ resp[t].status = 200
  /\ resp["t1"].upload_key # resp["t2"].upload_key
  /\ ValidUploadKey(uploadKeys, resp["t1"].upload_key)
  /\ ValidUploadKey(uploadKeys, resp["t2"].upload_key)

(***************************************************************************)
(* C16.  A task holds the registry lock exactly while it is at the append  *)
(* to the registry or at the lookup in it, so at most one task is there    *)
(* and no task holds the lock when it reads a body, works on a file,       *)
(* answers or is idle; the registry changes only in a step of the holder;  *)
(* the lookup and the append end with the lock free; and a step of the     *)
(* holder changes no file and reads no body.                               *)
(***************************************************************************)
\* the places where a handler reads or writes uploadKeys
InCritical(t) == pc[t] \in {"issue_append", "up_check", "fo_check"}

HoldsLockInCritical == \A t \in Tasks : InCritical(t) <=> uploadKeysMutex = t

C16_LockDiscipline ==
  [][/\ HoldsLockInCritical'
     /\ uploadKeysMutex' \in Tasks \cup {"free"}
     /\ Cardinality({t \in Tasks : InCritical(t)'}) <= 1
     /\ uploadKeys' # uploadKeys =>
          \E t \in Tasks : uploadKeysMutex = t /\ pc[t] = "issue_append" /\ pc'[t] = "done"
     /\ \A t \in Tasks :
          (uploadKeysMutex = t /\ pc'[t] # pc[t]) =>
            /\ uploadKeysMutex' = "free"
            /\ store' = store
            /\ req'[t] = req[t]]_vars

\* one task holds the lock at the lookup while the other waits for it to append
C16_Witness ==
  \E t \in Tasks, u \in Tasks :
    /\ pc[t] = "up_check" /\ uploadKeysMutex = t
    /\ pc[u] = "issue_lock"

(***************************************************************************)
(* C17.  Under a fair schedule every request a task serves is answered,    *)
(* with requests served at once; and in every state every task that       *)
(* serves a request can take a step, or waits for the registry lock while  *)
(* its holder can take a step: nothing waits for a file or for new data.   *)
(***************************************************************************)
Serving(t) == pc[t] \notin {"idle", "done"}

WaitsForLock(t) == pc[t] \in {"issue_lock", "up_lock", "fo_lock"}

NoTaskStuck ==
  \A t \in Tasks :
    Serving(t) =>
      \/ ENABLED Work(t)
      \/ /\ WaitsForLock(t)
         /\ \E u \in Tasks \ {t} : uploadKeysMutex = u /\ ENABLED Work(u)

C17_EveryCallReturns ==
  /\ []NoTaskStuck
  /\ \A t \in Tasks : Serving(t) ~> (pc[t] = "done")

\* a follow is answered that there is nothing new while an upload is writing
C17_Witness ==
  \E t \in Tasks, u \in Tasks :
    /\ Answered(t, "follow") /\ resp[t].status = 204
    /\ pc[u] = "sv_write"

(***************************************************************************)
(* C18.  The new cursor a follow is given is never below the new cursor    *)
(* the follow before it under the same key was given, whatever cursors the *)
(* follows supply and whatever uploads are served between them.            *)
(***************************************************************************)
C18_CursorNeverDecreases ==
  [][\A t \in Tasks :
       (pc[t] = "fo_read" /\ pc'[t] = "done") =>
         resp'[t].position >= lastCursor[loc[t].uploadKey]]_vars

(***************************************************************************)
(* C19.  The path of an upload depends on its key only: every upload under *)
(* a key opens, writes and returns the one path written out below for that *)
(* key, however the key was spelled in the request and however many        *)
(* uploads came before; a file exists only under the path of an issued     *)
(* key, and there is one file per key at most.                             *)
(***************************************************************************)
PathOfKey ==
  "key1" :> "uploads/correct battery horse uplink_key1.csv" @@
  "key2" :> "uploads/correct battery horse uplink_key2.csv"

C19_PathDependsOnKeyOnly ==
  /\ \A t \in Tasks :
       (req[t].kind = "upload" /\ KeyOf[req[t].rawKey] \in DOMAIN PathOfKey) =>
         LET path == PathOfKey[KeyOf[req[t].rawKey]]
         IN  /\ pc[t] = "sv_open" => FilePath(loc[t].uploadName, loc[t].uploadKey) = path
             /\ loc[t].filePath \in {"", path}
             /\ loc[t].ino # 0 => dir[path] = loc[t].ino
             /\ resp[t].status = 200 =>
                  /\ resp[t].file_path = path
                  /\ File(path) # NoFile
  /\ \A p \in Paths :
       File(p) # NoFile => \E i \in 1..Len(uploadKeys) : PathOfKey[uploadKeys[i]] = p
  /\ Len(inodes) <= Cardinality(Range(uploadKeys))

\* a second upload under the key, spelled with spaces and capitals this time
C19_Witness ==
  \E t \in Tasks :
    /\ Answered(t, "upload") /\ resp[t].status = 200
    /\ req[t].rawKey = "key1 padded"
    /\ resp[t].file_path = PathOfKey["key1"]
    /\ Len(acked[resp[t].file_path]) = 2
    /\ resp[t].records = 1

(***************************************************************************)
(* C20.  The name is a function of the characters of the key alone.  For a *)
(* key that, once the white space around it is trimmed and its letters are *)
(* lower-cased, is hexadecimal and decodes to 8 bytes or more, the name is *)
(* 4 words joined by single spaces, word i (i = 0..3) being the word at    *)
(* (256 * byte[2i] + byte[2i+1]) mod 49 of the word list; for every other  *)
(* key it is "upload".  Two calls with the same key give the same name.    *)
(***************************************************************************)
IsHexAnyCase(c) == IsHex(LowerChar(c))

\* the text decodes from hex, capitals or not
DecodesFromHex(s) == Len(s) % 2 = 0 /\ \A i \in 1..Len(s) : IsHexAnyCase(s[i])

\* byte j (from 0) of the decoded text
ByteOf(s, j) == 16 * HexVal(LowerChar(s[2 * j + 1])) + HexVal(LowerChar(s[2 * j + 2]))

WordOf(s, i) == uploadNameWords[((256 * ByteOf(s, 2 * i) + ByteOf(s, 2 * i + 1)) % 49) + 1]

FourWords(s) == WordOf(s, 0) \o " " \o WordOf(s, 1) \o " " \o WordOf(s, 2) \o " " \o WordOf(s, 3)

\* the name the contract gives to the text s
ContractName(s) == IF DecodesFromHex(s) /\ Len(s) \div 2 >= 8 THEN FourWords(s) ELSE "upload"

\* the words of the byte pairs the keys are made of
WordOfPair ==
  ( <<"0","0","0","1">> :> "battery" ) @@
  ( <<"0","1","0","0">> :> "harbor" ) @@
  ( <<"f","f","f","f">> :> "solstice" )

Named(t) == pc[t] = "done" /\ req[t].kind = "none" /\ loc[t].uploadName # ""

C20_NameOfTrimmedKey ==
  /\ \A t \in Tasks :
       Named(t) =>
         /\ loc[t].uploadName = ContractName(TrimSpace(loc[t].uploadKey))
         /\ loc[t].uploadKey \in EightBytes =>
              loc[t].uploadName =
                WordOfPair[SubSeq(loc[t].uploadKey, 1, 4)] \o " " \o
                WordOfPair[SubSeq(loc[t].uploadKey, 5, 8)] \o " " \o
                WordOfPair[SubSeq(loc[t].uploadKey, 9, 12)] \o " " \o
                WordOfPair[SubSeq(loc[t].uploadKey, 13, 16)]
  /\ \A t \in Tasks, u \in Tasks :
       (Named(t) /\ Named(u) /\ loc[t].uploadKey = loc[u].uploadKey) =>
         loc[t].uploadName = loc[u].uploadName

\* the statement with the key taken as it is given
C20_NameOfKeyAsGiven ==
  \A t \in Tasks : Named(t) => loc[t].uploadName = ContractName(loc[t].uploadKey)

\* one task named a key given with white space around it, the other a key
\* that decodes to 7 bytes
C20_Witness ==
  /\ Named("t1") /\ Named("t2")
  /\ loc["t1"].uploadKey =
       <<" ">> \o <<"0","0","0","1", "0","1","0","0", "f","f","f","f", "0","0","0","1">> \o <<" ">>
  /\ loc["t1"].uploadName = "battery harbor solstice battery"
  /\ loc["t2"].uploadKey = <<"0","0","0","1", "0","1","0","0", "f","f","f","f", "0","0">>
  /\ loc["t2"].uploadName = "upload"

(***************************************************************************)
(* C21.  The scan of a file whose last line has no line feed passes over   *)
(* that line: the count an upload takes of the records of the file is the  *)
(* count of the lines that end with a line feed.                           *)
(***************************************************************************)
\* the bytes of data up to its last line feed
RECURSIVE UpToLastNL(_)
UpToLastNL(data) ==
  IF data = <<>> \/ Last(data) = NL THEN data
  ELSE UpToLastNL(SubSeq(data, 1, Len(data) - 1))

\* t is an upload that has scanned a file that held bytes
HasScanned(t) ==
  /\ req[t].kind = "upload"
  /\ pc[t] \in {"sv_readat", "sv_seek", "sv_write", "sv_cleanup"}
  /\ ~loc[t].isNew

C21_PartialLineNotCounted ==
  \A t \in Tasks :
    HasScanned(t) => loc[t].existingRecords = ExistingRecords(UpToLastNL(BytesBefore(t)))

(***************************************************************************)
(* C22.  On a file that holds bytes, the count the scan of an upload       *)
(* leaves is the number of the lines after the first that hold a character *)
(* that is not white space -- blank lines and the first line, whatever it  *)
(* holds, are not counted -- and the first index the upload assigns is     *)
(* that number plus 1.                                                     *)
(***************************************************************************)
\* the lines of data after the first that are not blank
CountedLines(data) ==
  LET scanned == ScanLines(data)
  IN  Cardinality({i \in 2..Len(scanned) :
                     \E j \in 1..Len(scanned[i]) : ~IsSpace(scanned[i][j])})

C22_FirstIndexFromCount ==
  [][\A t \in Tasks :
       /\ (pc[t] = "sv_scan" /\ pc'[t] # "sv_scan") =>
            loc'[t].existingRecords = CountedLines(inodes[loc[t].ino])
       /\ (pc[t] = "sv_seek" /\ pc'[t] # "sv_seek" /\ ~loc[t].isNew /\ loc[t].lines # <<>>) =>
            LET written == Flatten(loc'[t].chunks)
                first == RecordLine(loc[t].existingRecords + 1, loc[t].lines[1]) \o <<NL>>
            IN  IF loc[t].needsTrailingNewline
                THEN IsPrefix(<<NL>> \o first, written)
                ELSE IsPrefix(first, written)]_vars

\* a scan has just passed over a blank line: the file holds a blank line
\* after its first line, and the count is less than the number of lines
C22_Witness ==
  \E t \in Tasks :
    /\ pc[t] = "sv_readat"
    /\ \A u \in Tasks \ {t} : pc[u] \in {"idle", "done"}
    /\ \E i \in 2..Len(ScanLines(inodes[loc[t].ino])) : ScanLines(inodes[loc[t].ino])[i] = <<>>
    /\ loc[t].existingRecords = CountedLines(inodes[loc[t].ino])
    /\ loc[t].existingRecords < Len(ScanLines(inodes[loc[t].ino])) - 1

(***************************************************************************)
(* C23.  An upload answered 200 reports as its count of records the number *)
(* of the lines of its body that are not blank once trimmed, and the lines *)
(* it has added to the file are that many record lines, which hold the     *)
(* trimmed text of those body lines in the order of the body.              *)
(***************************************************************************)
\* the lines of a body, trimmed, without the blank ones
TrimmedNonBlank(body) ==
  LET trimmed == [i \in 1..Len(body) |-> TrimSpace(body[i])]
      Kept(line) == line # <<>>
  IN  SelectSeq(trimmed, Kept)

\* the record lines among the lines the upload of t added
DataLinesAdded(t) ==
  IF BytesBefore(t) = <<>> THEN Tail(ScanLines(BytesAdded(t))) ELSE ScanLines(BytesAdded(t))

C23_RecordsAreBodyLines ==
  \A t \in Tasks :
    (Answered(t, "upload") /\ resp[t].status = 200) =>
      LET kept == TrimmedNonBlank(req[t].body)
          before == Len(LinesAfterFirst(BytesBefore(t)))
      IN  /\ resp[t].records = Len(kept)
          /\ BytesAdded(t) # <<>> => Last(BytesAdded(t)) = NL
          /\ DataLinesAdded(t) = [i \in 1..Len(kept) |-> RecordLine(before + i, kept[i])]

\* a body of a blank line and a line with a space before its text, stored
\* behind a record
C23_Witness ==
  \E t \in Tasks :
    /\ Answered(t, "upload") /\ resp[t].status = 200
    /\ req[t].body = << <<" ">>, <<" ", "{", "}">> >>
    /\ resp[t].records = 1
    /\ DataLinesAdded(t) = << RecordLine(2, <<"{", "}">>) >>

(***************************************************************************)
(* C24.  The line an upload answered 400 for invalid JSON names is the     *)
(* place in the body, counted from 1, of the first line that is not JSON.  *)
(***************************************************************************)
\* the place of the first line of body that is not JSON
FirstInvalidLine(body) ==
  CHOOSE i \in 1..Len(body) :
    /\ TrimSpace(body[i]) # <<>> /\ ~JSONValid(TrimSpace(body[i]))
    /\ \A j \in 1..(i - 1) : TrimSpace(body[j]) = <<>> \/ JSONValid(TrimSpace(body[j]))

C24_LineNumberIsPlaceInBody ==
  \A t \in Tasks :
    (Answered(t, "upload") /\ resp[t].msg = "invalid JSON on line") =>
      /\ HasInvalidLine(req[t].body)
      /\ resp[t].line = FirstInvalidLine(req[t].body)

(***************************************************************************)
(* C25.  Nothing is deduplicated: when a batch of n records is stored a    *)
(* second time under a key, one upload after the other, the file holds 2n  *)
(* record lines with the indices 1..2n, the lines n+1..2n repeating the    *)
(* payloads of the lines 1..n, and the second upload was given the indices *)
(* n+1..2n.                                                                *)
(***************************************************************************)
\* t has been answered 200 for a batch that the file of its key held already,
\* and held nothing else
StoredAgain(t) ==
  /\ Answered(t, "upload") /\ resp[t].status = 200
  /\ loc[t].lines # <<>>
  /\ LET n == Len(loc[t].lines)
         stored == acked[loc[t].filePath]
     IN  /\ Len(stored) = 2 * n
         /\ \A i \in 1..n : stored[i].line = loc[t].lines[i]

C25_BatchStoredTwice ==
  \A t \in Tasks :
    StoredAgain(t) =>
      LET n == Len(loc[t].lines)
          B == loc[t].lines
      IN  /\ LinesAfterFirst(File(loc[t].filePath)) =
               [i \in 1..(2 * n) |-> RecordLine(i, IF i <= n THEN B[i] ELSE B[i - n])]
          /\ loc[t].existingRecords = n
          /\ \A i \in 1..n :
               acked[loc[t].filePath][n + i] = [index |-> n + i, line |-> B[i]]

\* a batch of two records stored twice
C25_Witness ==
  \E t \in Tasks :
    /\ StoredAgain(t)
    /\ req[t].body = << <<"7">>, <<" ", "{", "}">> >>
    /\ Len(LinesAfterFirst(File(loc[t].filePath))) = 4

(***************************************************************************)
(* C26.  The follower of a key starts at cursor 0 and gives every follow   *)
(* the new cursor of the follow before.  With requests served one after    *)
(* the other and every upload succeeding, the lines it has been given so   *)
(* far are, at every point, the record lines 1..newCursor of the file,     *)
(* each once and in the order of their indices, and a follow just answered *)
(* has brought it to the last record stored.                               *)
(***************************************************************************)
C26_FollowerReceivesEachOnce ==
  \A k \in KeyPool :
    LET p == FilePath(NameOf[k], k)
        n == lastCursor[k]
    IN  /\ n <= Len(acked[p])
        /\ received[k] = [i \in 1..n |-> RecordLine(i, acked[p][i].line)]
        /\ n > 0 => /\ File(p) # NoFile
                    /\ received[k] = SubSeq(LinesAfterFirst(File(p)), 1, n)
        /\ \A t \in Tasks :
             (Answered(t, "follow") /\ loc[t].uploadKey = k /\ resp[t].status \in {200, 204}) =>
               /\ n = Len(acked[p])
               /\ resp[t].position = n

\* the follower is given the records 2 and 3 by a follow with cursor 1
C26_Witness ==
  \E t \in Tasks :
    /\ Answered(t, "follow") /\ resp[t].status = 200
    /\ req[t].position = 1
    /\ Len(resp[t].lines) = 2
    /\ Len(received[loc[t].uploadKey]) = 3

(***************************************************************************)
(* C27.  No step of an upload under one key creates, changes or deletes    *)
(* the file of another key, the two keys having the same name or not: the  *)
(* paths of two keys differ, the key being part of the path.               *)
(***************************************************************************)
PathOf(k) == FilePath(NameOf[k], k)

C27_OtherKeysFileUntouched ==
  [][\A t \in Tasks :
       (req'[t].kind = "upload" /\ pc'[t] # pc[t]) =>
         \A k \in KeyPool \ {loc'[t].uploadKey} :
           /\ PathOf(k) # PathOf(loc'[t].uploadKey)
           /\ dir'[PathOf(k)] = dir[PathOf(k)]
           /\ File(PathOf(k))' = File(PathOf(k))]_vars

\* the two keys have the same name; key2 has a record in its file, and an
\* upload under key1 has just failed and deleted the file of key1
C27_Witness ==
  \E t \in Tasks :
    /\ NameOf["key1"] = NameOf["key2"]
    /\ Answered(t, "upload") /\ resp[t].status = 500
    /\ loc[t].uploadKey = "key1"
    /\ File(PathOf("key1")) = NoFile
    /\ Len(LinesAfterFirst(File(PathOf("key2")))) = 1

(***************************************************************************)
(* C28.  An upload under an issued key whose body holds no line that is    *)
(* not blank is answered 200 with 0 records: where the key had no file it  *)
(* leaves a file that holds the metadata line and nothing else, where it   *)
(* had one it leaves the file as it was.  The upload of records that       *)
(* follows is given the indices after those of the records stored, from 1  *)
(* on where the file held the metadata line only.                          *)
(***************************************************************************)
\* t is an upload under an issued key whose body was read without an error
\* and holds no record
EmptyUpload(t) ==
  /\ Answered(t, "upload")
  /\ ValidUploadKey(uploadKeys, loc[t].uploadKey)
  /\ ~req[t].bodyErr
  /\ TrimmedNonBlank(req[t].body) = <<>>

C28_EmptyBatchStored ==
  \A t \in Tasks :
    /\ EmptyUpload(t) =>
         /\ resp[t].status = 200 /\ resp[t].records = 0
         /\ File(loc[t].filePath) # NoFile
         /\ IF BytesBefore(t) = <<>>
            THEN File(loc[t].filePath) =
                   MetadataJSON(loc[t].uploadKey, loc[t].uploadName, loc[t].userAgent,
                                loc[t].receivedAt) \o <<NL>>
            ELSE File(loc[t].filePath) = BytesBefore(t)
    /\ (Answered(t, "upload") /\ resp[t].status = 200 /\ resp[t].records > 0) =>
         LET n == resp[t].records
             stored == Len(LinesAfterFirst(BytesBefore(t)))
         IN  /\ stored = Len(acked[loc[t].filePath]) - n
             /\ DataLinesAdded(t) = [i \in 1..n |-> RecordLine(stored + i, loc[t].lines[i])]

\* a record stored with index 1 in a file that held the metadata line only
C28_Witness ==
  \E t \in Tasks :
    /\ Answered(t, "upload") /\ resp[t].status = 200 /\ resp[t].records = 1
    /\ ~loc[t].isNew
    /\ ScanLines(BytesBefore(t)) # <<>> /\ LinesAfterFirst(BytesBefore(t)) = <<>>
    /\ LinesAfterFirst(File(loc[t].filePath)) = << RecordLine(1, loc[t].lines[1]) >>

=============================================================================
